---- MODULE Spec2Model ----
(***************************************************************************)
(* IPM Library Telegram bot (vinit000033/Booklibrary): the flat-file       *)
(* store of src/utils.py and the message handlers of src/main.py.          *)
(*                                                                         *)
(* Text (message text, captions, file names, links, titles, authors) is a  *)
(* sequence of one-character strings, so that split, strip, replace and    *)
(* the link patterns are computed as Python computes them.  Timestamps are *)
(* readings of an integer clock.  An optional value (Python None or a      *)
(* value) is the empty or the one-element sequence.                        *)
(***************************************************************************)
EXTENDS Integers, Sequences, FiniteSets, TLC

VARIABLES storage_json, now, uuids, ret, calls

vars == <<storage_json, now, uuids, ret, calls>>

(***************************************************************************)
(* Bounds of the model.                                                    *)
(***************************************************************************)
\* the clock runs from 0 to MaxTime
MaxTime == 1
\* uuid.uuid4() is called at most MaxUuid times in a run
MaxUuid == 2
\* the texts and captions of the intake specification have at most MaxText characters
MaxText == 3
\* the leaderboard specification: the clock reads BoardNow, a store holds at
\* most MaxBoardBooks submissions of any kind, or the approved submissions of
\* MaxSubmitters submitters
BoardNow == 10
MaxBoardBooks == 3
MaxSubmitters == 11
\* the file-level specification: the handlers run on MaxThreads threads, each
\* thread makes at most MaxCalls calls of a store function
MaxThreads == 2
MaxCalls == 1

None == <<>>
Some(x) == <<x>>

(***************************************************************************)
(* Python's str operations, on sequences of characters.                    *)
(***************************************************************************)
Drop(s, n) == SubSeq(s, n + 1, Len(s))

StartsWith(s, p) == Len(p) <= Len(s) /\ SubSeq(s, 1, Len(p)) = p

\* sub in s
Contains(s, sub) == \E i \in 0..(Len(s) - Len(sub)) : StartsWith(Drop(s, i), sub)

Whitespace == {" "}

RECURSIVE LStrip(_)
LStrip(s) == IF s # <<>> /\ Head(s) \in Whitespace THEN LStrip(Tail(s)) ELSE s

RECURSIVE RStrip(_)
RStrip(s) ==
    IF s # <<>> /\ s[Len(s)] \in Whitespace THEN RStrip(SubSeq(s, 1, Len(s) - 1)) ELSE s

\* s.strip()
Strip(s) == RStrip(LStrip(s))

\* s.split(sep) for a one-character sep: always at least one part
RECURSIVE Split(_, _)
Split(s, sep) ==
    IF \A i \in 1..Len(s) : s[i] # sep
    THEN <<s>>
    ELSE LET i == CHOOSE j \in 1..Len(s) :
                      s[j] = sep /\ \A k \in 1..(j - 1) : s[k] # sep
         IN  <<SubSeq(s, 1, i - 1)>> \o Split(Drop(s, i), sep)

\* s.replace(pat, ''): leftmost non-overlapping occurrences are removed
RECURSIVE Remove(_, _)
Remove(s, pat) ==
    IF Len(s) < Len(pat) \/ pat = <<>> THEN s
    ELSE IF StartsWith(s, pat) THEN Remove(Drop(s, Len(pat)), pat)
    ELSE <<Head(s)>> \o Remove(Tail(s), pat)

\* [part.strip() for part in text.split('|')]
Parts(text) == LET p == Split(text, "|") IN [i \in 1..Len(p) |-> Strip(p[i])]

(***************************************************************************)
(* Link normalization (utils.validate_google_drive_link).                  *)
(***************************************************************************)
DriveDomain == <<"d", "r", "i", "v", "e", ".", "g", "o", "o", "g", "l", "e", ".", "c", "o", "m">>
FileDPrefix == <<"/", "f", "i", "l", "e", "/", "d", "/">>
IdParam == <<"i", "d", "=">>
DPrefix == <<"/", "d", "/">>
SharingHead == <<"h", "t", "t", "p", "s", ":", "/", "/", "d", "r", "i", "v", "e", ".", "g", "o", "o", "g", "l", "e", ".", "c", "o", "m", "/", "f", "i", "l", "e", "/", "d", "/">>
SharingTail == <<"/", "v", "i", "e", "w", "?", "u", "s", "p", "=", "s", "h", "a", "r", "i", "n", "g">>

\* the character class [a-zA-Z0-9-_]
IdChars ==
    {"a", "b", "c", "d", "e", "f", "g", "h", "i", "j", "k", "l", "m", "n", "o", "p", "q",
     "r", "s", "t", "u", "v", "w", "x", "y", "z", "A", "B", "C", "D", "E", "F", "G", "H",
     "I", "J", "K", "L", "M", "N", "O", "P", "Q", "R", "S", "T", "U", "V", "W", "X", "Y",
     "Z", "0", "1", "2", "3", "4", "5", "6", "7", "8", "9", "-", "_"}

\* the longest prefix of s made of id characters: what ([a-zA-Z0-9-_]+) captures
RECURSIVE IdRun(_)
IdRun(s) == IF s # <<>> /\ Head(s) \in IdChars THEN <<Head(s)>> \o IdRun(Tail(s)) ELSE <<>>

\* the offsets at which prefix([a-zA-Z0-9-_]+) matches in link
MatchOffsets(link, prefix) ==
    {i \in 0..Len(link) :
        /\ StartsWith(Drop(link, i), prefix)
        /\ IdRun(Drop(link, i + Len(prefix))) # <<>>}

\* re.search(prefix + '([a-zA-Z0-9-_]+)', link): group(1) of the leftmost match, or None
re_search(prefix, link) ==
    LET offs == MatchOffsets(link, prefix)
    IN  IF offs = {} THEN None
        ELSE LET i == CHOOSE j \in offs : \A k \in offs : j <= k
             IN  Some(IdRun(Drop(link, i + Len(prefix))))

\* a variant of the pattern list that tries /d/ first
file_id_patterns_d_first == <<DPrefix, FileDPrefix, IdParam>>

file_id_patterns == <<FileDPrefix, IdParam, DPrefix>>

validate_google_drive_link(link) ==
    IF link = <<>> \/ ~Contains(link, DriveDomain) THEN link
    ELSE LET hits == {n \in 1..Len(file_id_patterns) :
                         re_search(file_id_patterns[n], link) # None}
         IN  IF hits = {} THEN link
             ELSE LET n == CHOOSE m \in hits : \A k \in hits : m <= k
                  IN  SharingHead \o re_search(file_id_patterns[n], link)[1] \o SharingTail

(***************************************************************************)
(* The store: storage.json holds one document {users, books}.              *)
(* storage_json is the file: None when it does not exist, else Some(doc).  *)
(***************************************************************************)
EmptyStorage == [users |-> <<>>, books |-> <<>>]

load_storage(file) == IF file = None THEN EmptyStorage ELSE file[1]

\* the file's content after save_storage(data)
save_storage(data) == Some(data)

\* the first position of seq whose element has the given id, 0 when there is none
IndexOfId(seq, id) ==
    IF \E i \in 1..Len(seq) : seq[i].id = id
    THEN CHOOSE i \in 1..Len(seq) : seq[i].id = id /\ \A j \in 1..(i - 1) : seq[j].id # id
    ELSE 0

\* a variant of add_user that appends without looking for the id
add_user_append(file, user_id, username, first_name, t1, t2) ==
    LET storage == load_storage(file)
    IN  save_storage([storage EXCEPT
            !.users = Append(@, [id |-> user_id,
                                 username |-> username,
                                 first_name |-> first_name,
                                 joined_date |-> t1,
                                 last_seen |-> t2])])

\* a variant of add_user that refreshes only last_seen of a stored user
add_user_keep_profile(file, user_id, username, first_name, t1, t2) ==
    LET storage == load_storage(file)
        i == IndexOfId(storage.users, user_id)
    IN  IF i # 0
        THEN save_storage([storage EXCEPT !.users[i].last_seen = t1])
        ELSE save_storage([storage EXCEPT
                 !.users = Append(@, [id |-> user_id,
                                      username |-> username,
                                      first_name |-> first_name,
                                      joined_date |-> t1,
                                      last_seen |-> t2])])

\* a variant of add_user that also renames the stored submissions of the user
add_user_renames_books(file, user_id, username, first_name, t1, t2) ==
    LET storage == load_storage(file)
        i == IndexOfId(storage.users, user_id)
        books == [b \in 1..Len(storage.books) |->
                     IF storage.books[b].submitter_id = user_id
                     THEN [storage.books[b] EXCEPT !.submitter_username = username,
                                                   !.submitter_name = first_name]
                     ELSE storage.books[b]]
    IN  IF i # 0
        THEN save_storage([storage EXCEPT
                 !.users[i].username = username,
                 !.users[i].first_name = first_name,
                 !.users[i].last_seen = t1,
                 !.books = books])
        ELSE save_storage([storage EXCEPT
                 !.users = Append(@, [id |-> user_id,
                                      username |-> username,
                                      first_name |-> first_name,
                                      joined_date |-> t1,
                                      last_seen |-> t2])])

\* a variant of add_user that updates a stored user and stores no new one
add_user_update_only(file, user_id, username, first_name, t1, t2) ==
    LET storage == load_storage(file)
        i == IndexOfId(storage.users, user_id)
    IN  IF i # 0
        THEN save_storage([storage EXCEPT
                 !.users[i].username = username,
                 !.users[i].first_name = first_name,
                 !.users[i].last_seen = t1])
        ELSE save_storage(storage)

\* add_user: t1 is the first reading of datetime.now(), t2 the second one
\* (a new user's last_seen is read after its joined_date)
add_user(file, user_id, username, first_name, t1, t2) ==
    LET storage == load_storage(file)
        i == IndexOfId(storage.users, user_id)
    IN  IF i # 0
        THEN save_storage([storage EXCEPT
                 !.users[i].username = username,
                 !.users[i].first_name = first_name,
                 !.users[i].last_seen = t1])
        ELSE save_storage([storage EXCEPT
                 !.users = Append(@, [id |-> user_id,
                                      username |-> username,
                                      first_name |-> first_name,
                                      joined_date |-> t1,
                                      last_seen |-> t2])])

\* the clock reading after add_user returns
add_user_clock(file, user_id, t1, t2) ==
    IF IndexOfId(load_storage(file).users, user_id) # 0 THEN t1 ELSE t2

\* a variant of add_book_submission that numbers the submissions by position
add_book_submission_by_position(file, book_id, title, author, submitter_id, submitter_username, submitter_name, gdrive_link, file_id, t) ==
    LET storage == load_storage(file)
        new_book == [id |-> Len(storage.books) + 1,
                     title |-> title,
                     author |-> author,
                     submitter_id |-> submitter_id,
                     submitter_username |-> submitter_username,
                     submitter_name |-> submitter_name,
                     gdrive_link |->
                         IF gdrive_link # <<>>
                         THEN validate_google_drive_link(gdrive_link) ELSE <<>>,
                     file_id |-> file_id,
                     timestamp |-> t,
                     approved |-> FALSE,
                     approved_date |-> None,
                     approved_by |-> None]
    IN  save_storage([storage EXCEPT !.books = Append(@, new_book)])

\* a variant of add_book_submission that stores approve_book's default approver
add_book_submission_default_approver(file, book_id, title, author, submitter_id, submitter_username, submitter_name, gdrive_link, file_id, t) ==
    LET storage == load_storage(file)
        new_book == [id |-> book_id,
                     title |-> title,
                     author |-> author,
                     submitter_id |-> submitter_id,
                     submitter_username |-> submitter_username,
                     submitter_name |-> submitter_name,
                     gdrive_link |->
                         IF gdrive_link # <<>>
                         THEN validate_google_drive_link(gdrive_link) ELSE <<>>,
                     file_id |-> file_id,
                     timestamp |-> t,
                     approved |-> FALSE,
                     approved_date |-> None,
                     approved_by |-> Some("")]
    IN  save_storage([storage EXCEPT !.books = Append(@, new_book)])

\* add_book_submission: book_id is the value of uuid.uuid4(), t of datetime.now()
add_book_submission(file, book_id, title, author, submitter_id, submitter_username, submitter_name, gdrive_link, file_id, t) ==
    LET storage == load_storage(file)
        validated_link ==
            IF gdrive_link # <<>> THEN validate_google_drive_link(gdrive_link) ELSE <<>>
        new_book == [id |-> book_id,
                     title |-> title,
                     author |-> author,
                     submitter_id |-> submitter_id,
                     submitter_username |-> submitter_username,
                     submitter_name |-> submitter_name,
                     gdrive_link |-> validated_link,
                     file_id |-> file_id,
                     timestamp |-> t,
                     approved |-> FALSE,
                     approved_date |-> None,
                     approved_by |-> None]
    IN  save_storage([storage EXCEPT !.books = Append(@, new_book)])

\* a variant of get_pending_books without the filter
get_pending_books_all(file) == load_storage(file).books

get_pending_books(file) ==
    SelectSeq(load_storage(file).books, LAMBDA book : ~book.approved)

\* a variant of approve_book that returns the record as it was loaded
approve_book_stale(file, book_id, approved_by, t) ==
    LET storage == load_storage(file)
        i == IndexOfId(storage.books, book_id)
        approved == [storage EXCEPT
                        !.books[i].approved = TRUE,
                        !.books[i].approved_date = Some(t),
                        !.books[i].approved_by = Some(approved_by)]
    IN  IF i # 0
        THEN [file |-> save_storage(approved), success |-> TRUE,
              book |-> Some(storage.books[i])]
        ELSE [file |-> file, success |-> FALSE, book |-> None]

\* a variant of approve_book that approves the last record scanned when no id
\* matches
approve_book_last(file, book_id, approved_by, t) ==
    LET storage == load_storage(file)
        found == IndexOfId(storage.books, book_id)
        i == IF found # 0 THEN found ELSE Len(storage.books)
        approved == [storage EXCEPT
                        !.books[i].approved = TRUE,
                        !.books[i].approved_date = Some(t),
                        !.books[i].approved_by = Some(approved_by)]
    IN  IF i # 0
        THEN [file |-> save_storage(approved), success |-> TRUE,
              book |-> Some(approved.books[i])]
        ELSE [file |-> file, success |-> FALSE, book |-> None]

\* approve_book: the file afterwards, and the returned (success, book)
approve_book(file, book_id, approved_by, t) ==
    LET storage == load_storage(file)
        i == IndexOfId(storage.books, book_id)
        approved == [storage EXCEPT
                        !.books[i].approved = TRUE,
                        !.books[i].approved_date = Some(t),
                        !.books[i].approved_by = Some(approved_by)]
    IN  IF i # 0
        THEN [file |-> save_storage(approved), success |-> TRUE,
              book |-> Some(approved.books[i])]
        ELSE [file |-> file, success |-> FALSE, book |-> None]

\* a variant of the reject branch that keeps only the approved submissions
reject_book_all_pending(file, book_id) ==
    LET storage == load_storage(file)
    IN  save_storage([storage EXCEPT
            !.books = SelectSeq(@, LAMBDA book : book.id # book_id /\ book.approved)])

\* the reject branch of handle_approval_callback: load, filter, save
reject_book(file, book_id) ==
    LET storage == load_storage(file)
    IN  save_storage([storage EXCEPT
            !.books = SelectSeq(@, LAMBDA book : book.id # book_id)])

\* a variant of clean_old_data that drops the submission dated at the cutoff
clean_old_data_strict(file, days, t) ==
    LET storage == load_storage(file)
        cutoff_date == t - days
    IN  save_storage([storage EXCEPT
            !.books = SelectSeq(@, LAMBDA book :
                          book.approved \/ book.timestamp > cutoff_date)])

\* clean_old_data: t is the reading of datetime.now()
clean_old_data(file, days, t) ==
    LET storage == load_storage(file)
        cutoff_date == t - days
    IN  save_storage([storage EXCEPT
            !.books = SelectSeq(@, LAMBDA book :
                          book.approved \/ book.timestamp >= cutoff_date)])

(***************************************************************************)
(* The leaderboard.  days is None (all time) or Some(n); t is the reading  *)
(* of datetime.now().  A dict is the sequence of its entries in insertion  *)
(* order, which is the order Python iterates it in.                        *)
(***************************************************************************)
\* an approved_date that datetime.fromisoformat() does not parse
InvalidDate == -1

fromisoformat_raises(date) == date = InvalidDate

\* the leaderboard keeps the top ten
TopTen == 10

\* get_weekly_leaderboard and get_monthly_leaderboard
WeekDays == 7
MonthDays == 30

\* a variant of filtered_books that takes every submission for the all-time board
filtered_books_unfiltered(storage, days, t) ==
    IF days = None
    THEN storage.books
    ELSE SelectSeq(storage.books, LAMBDA book :
             /\ book.approved
             /\ book.approved_date # None
             /\ ~fromisoformat_raises(book.approved_date[1])
             /\ book.approved_date[1] >= t - days[1])

\* a variant of filtered_books that leaves out the approval dated at the cutoff
filtered_books_after_cutoff(storage, days, t) ==
    IF days = None
    THEN SelectSeq(storage.books, LAMBDA book : book.approved)
    ELSE SelectSeq(storage.books, LAMBDA book :
             /\ book.approved
             /\ book.approved_date # None
             /\ ~fromisoformat_raises(book.approved_date[1])
             /\ book.approved_date[1] > t - days[1])

filtered_books(storage, days, t) ==
    IF days = None
    THEN SelectSeq(storage.books, LAMBDA book : book.approved)
    ELSE SelectSeq(storage.books, LAMBDA book :
             /\ book.approved
             /\ book.approved_date # None
             /\ ~fromisoformat_raises(book.approved_date[1])
             /\ book.approved_date[1] >= t - days[1])

\* a variant of user_contributions that takes the names of every book counted
RECURSIVE user_contributions_last_names(_)
user_contributions_last_names(books) ==
    IF books = <<>> THEN <<>>
    ELSE LET done == user_contributions_last_names(SubSeq(books, 1, Len(books) - 1))
             book == books[Len(books)]
             i == IndexOfId(done, book.submitter_id)
         IN  IF i = 0
             THEN Append(done, [id |-> book.submitter_id,
                                count |-> 1,
                                username |-> book.submitter_username,
                                name |-> book.submitter_name])
             ELSE [done EXCEPT ![i].count = @ + 1,
                               ![i].username = book.submitter_username,
                               ![i].name = book.submitter_name]

\* user_contributions: one entry per submitter_id, made at its first book
RECURSIVE user_contributions(_)
user_contributions(books) ==
    IF books = <<>> THEN <<>>
    ELSE LET done == user_contributions(SubSeq(books, 1, Len(books) - 1))
             book == books[Len(books)]
             i == IndexOfId(done, book.submitter_id)
         IN  IF i = 0
             THEN Append(done, [id |-> book.submitter_id,
                                count |-> 1,
                                username |-> book.submitter_username,
                                name |-> book.submitter_name])
             ELSE [done EXCEPT ![i].count = @ + 1]

\* a variant of sort_by_count that puts an entry before those of equal count
RECURSIVE sort_by_count_unstable(_)
sort_by_count_unstable(entries) ==
    IF entries = <<>> THEN <<>>
    ELSE LET sorted == sort_by_count_unstable(SubSeq(entries, 1, Len(entries) - 1))
             entry == entries[Len(entries)]
             k == Cardinality({i \in 1..Len(sorted) : sorted[i].count > entry.count})
         IN  SubSeq(sorted, 1, k) \o <<entry>> \o SubSeq(sorted, k + 1, Len(sorted))

\* leaderboard.sort(key=lambda x: x[1], reverse=True): stable, descending
RECURSIVE sort_by_count(_)
sort_by_count(entries) ==
    IF entries = <<>> THEN <<>>
    ELSE LET sorted == sort_by_count(SubSeq(entries, 1, Len(entries) - 1))
             entry == entries[Len(entries)]
             k == Cardinality({i \in 1..Len(sorted) : sorted[i].count >= entry.count})
         IN  SubSeq(sorted, 1, k) \o <<entry>> \o SubSeq(sorted, k + 1, Len(sorted))

\* the entries of the result: (user_info, count)
leaderboard_of(contributions) ==
    [i \in 1..Len(contributions) |->
        [user |-> [id |-> contributions[i].id,
                   username |-> contributions[i].username,
                   name |-> contributions[i].name],
         count |-> contributions[i].count]]

get_leaderboard_by_period(file, days, t) ==
    LET storage == load_storage(file)
        leaderboard ==
            sort_by_count(leaderboard_of(user_contributions(filtered_books(storage, days, t))))
    IN  SubSeq(leaderboard, 1, IF Len(leaderboard) < TopTen THEN Len(leaderboard) ELSE TopTen)

(***************************************************************************)
(* The statistics.                                                         *)
(***************************************************************************)
\* get_library_stats: user_contributions.get(user_id, 0) + 1 over the approved books
RECURSIVE approved_contributions(_)
approved_contributions(books) ==
    IF books = <<>> THEN <<>>
    ELSE LET done == approved_contributions(SubSeq(books, 1, Len(books) - 1))
             book == books[Len(books)]
             i == IndexOfId(done, book.submitter_id)
         IN  IF ~book.approved THEN done
             ELSE IF i = 0 THEN Append(done, [id |-> book.submitter_id, count |-> 1])
             ELSE [done EXCEPT ![i].count = @ + 1]

\* a variant of max_key that takes the last key of the largest count
max_key_last(contributions) ==
    contributions[CHOOSE i \in 1..Len(contributions) :
                      /\ \A j \in 1..Len(contributions) :
                           contributions[j].count <= contributions[i].count
                      /\ \A j \in (i + 1)..Len(contributions) :
                           contributions[j].count < contributions[i].count]

\* max(user_contributions.keys(), key=...): the first key of the largest count
max_key(contributions) ==
    contributions[CHOOSE i \in 1..Len(contributions) :
                      /\ \A j \in 1..Len(contributions) :
                           contributions[j].count <= contributions[i].count
                      /\ \A j \in 1..(i - 1) :
                           contributions[j].count < contributions[i].count]

\* a variant of get_library_stats that reports every submission as pending
get_library_stats_all_pending(file) ==
    LET storage == load_storage(file)
        contributions == approved_contributions(storage.books)
        most_active == max_key(contributions)
        i == IndexOfId(storage.users, most_active.id)
    IN  [total_books |-> Len(SelectSeq(storage.books, LAMBDA book : book.approved)),
         total_users |-> Len(storage.users),
         pending_submissions |-> Len(storage.books),
         most_active_user |->
             IF contributions = <<>> THEN None
             ELSE IF i = 0 THEN None
             ELSE Some([name |-> storage.users[i].first_name,
                        username |-> storage.users[i].username,
                        contributions |-> most_active.count])]

get_library_stats(file) ==
    LET storage == load_storage(file)
        contributions == approved_contributions(storage.books)
        most_active == max_key(contributions)
        i == IndexOfId(storage.users, most_active.id)
    IN  [total_books |-> Len(SelectSeq(storage.books, LAMBDA book : book.approved)),
         total_users |-> Len(storage.users),
         pending_submissions |-> Len(SelectSeq(storage.books, LAMBDA book : ~book.approved)),
         most_active_user |->
             IF contributions = <<>> THEN None
             ELSE IF i = 0 THEN None
             ELSE Some([name |-> storage.users[i].first_name,
                        username |-> storage.users[i].username,
                        contributions |-> most_active.count])]

\* a variant of get_user_stats that counts the approved submissions of everybody
get_user_stats_all_approved(file, user_id) ==
    LET storage == load_storage(file)
        total_submissions ==
            Len(SelectSeq(storage.books, LAMBDA book : book.submitter_id = user_id))
        approved_books == Len(SelectSeq(storage.books, LAMBDA book : book.approved))
        i == IndexOfId(storage.users, user_id)
    IN  [user_info |-> IF i = 0 THEN None ELSE Some(storage.users[i]),
         total_submissions |-> total_submissions,
         approved_books |-> approved_books,
         approval_rate |->
             IF total_submissions > 0
             THEN [num |-> approved_books * 100, den |-> total_submissions]
             ELSE [num |-> 0, den |-> 1]]

\* get_user_stats: approval_rate is the quotient num / den of approved_books * 100
\* by total_submissions, and the integer 0 (num 0, den 1) when there is no submission
get_user_stats(file, user_id) ==
    LET storage == load_storage(file)
        total_submissions ==
            Len(SelectSeq(storage.books, LAMBDA book : book.submitter_id = user_id))
        approved_books ==
            Len(SelectSeq(storage.books, LAMBDA book :
                    book.submitter_id = user_id /\ book.approved))
        i == IndexOfId(storage.users, user_id)
    IN  [user_info |-> IF i = 0 THEN None ELSE Some(storage.users[i]),
         total_submissions |-> total_submissions,
         approved_books |-> approved_books,
         approval_rate |->
             IF total_submissions > 0
             THEN [num |-> approved_books * 100, den |-> total_submissions]
             ELSE [num |-> 0, den |-> 1]]

ADMIN_IDS == {1}

\* a variant of is_admin that takes everybody for an administrator
is_admin_anybody(user_id) == user_id = user_id

is_admin(user_id) == user_id \in ADMIN_IDS

(***************************************************************************)
(* What the handlers receive.  from_user is the sender: its username and   *)
(* first_name are "" when Telegram gives none.                             *)
(***************************************************************************)
Senders ==
    {[id |-> 1, username |-> "neo", first_name |-> "Neo"],
     [id |-> 1, username |-> "", first_name |-> ""],
     [id |-> 2, username |-> "bob", first_name |-> "Bob"]}

NoSender == [id |-> 0, username |-> "", first_name |-> ""]

Unknown == <<"U", "n", "k", "n", "o", "w", "n">>
PdfExt == <<".", "p", "d", "f">>
DocExt == <<".", "d", "o", "c">>
DocxExt == <<".", "d", "o", "c", "x">>

\* message.text of the text messages sent
Texts ==
    {<<"a", " ", "|", " ", "b">>,
     <<"a">>,
     <<"/", "x">>}

\* the documents uploaded: file_name and caption are <<>> when there is none
Documents ==
    {[file_id |-> "F1", file_name |-> <<"a", ".", "p", "d", "f">>, caption |-> <<>>]}

\* the intake paths on their own: every text and caption of at most MaxText
\* characters, and the file names of documents sent without a caption
Alphabet == {"a", " ", "|"}

SeqsUpTo(n) == UNION {[1..k -> Alphabet] : k \in 0..n}

IntakeSenders == {[id |-> 2, username |-> "bob", first_name |-> "Bob"]}

IntakeTexts == SeqsUpTo(MaxText) \cup {<<"/", "a", "|", "a">>}

FileNames == {<<>>, <<"a", ".", "p", "d", "f">>, <<".", "p", "d", "f">>,
              <<"a", ".", "d", "o", "c", "x">>}

IntakeDocuments ==
    {[file_id |-> "F1", file_name |-> <<>>, caption |-> c] : c \in SeqsUpTo(MaxText) \ {<<>>}}
    \cup {[file_id |-> "F1", file_name |-> n, caption |-> <<>>] : n \in FileNames}

\* approved_by of approve_book: the callback passes none, so the default ""
Approvers == {"", "admin1"}

\* the uuid strings: the k-th call of uuid.uuid4() returns k
BookIds == 1..MaxUuid

Days == 0..MaxTime

\* message.from_user.username or "Unknown", message.from_user.first_name or "User"
UsernameOf(from_user) == IF from_user.username # "" THEN from_user.username ELSE "Unknown"
FirstNameOf(from_user) == IF from_user.first_name # "" THEN from_user.first_name ELSE "User"

\* what the last handler did: the handler, the submission id it was about
\* (0: none), what the store operation returned, and the reply sent
Outcome(op, id, ok, out, reply) ==
    [op |-> op, id |-> id, ok |-> ok, out |-> out, reply |-> reply]

\* the handlers run on MaxThreads worker threads; calls[thread] is the call of a
\* store function the thread is in: where it is (pc), the function and the id
\* it is about (op), the store load_storage() returned (base), the store it
\* saves (storage), how many tokens of it are in the file (off), the threads
\* that had loaded and not yet opened the file when this call opened it
\* (raced), whether another thread had the file open for writing at some time
\* while this call had (overlap), the number of calls the thread has made, and
\* the file as it was when the call loaded it (held)
Threads == 1..MaxThreads

NoOp == [name |-> "", id |-> 0]

NoCall ==
    [pc |-> "idle", op |-> NoOp, base |-> EmptyStorage, storage |-> EmptyStorage,
     off |-> 0, raced |-> {}, overlap |-> FALSE, made |-> 0, held |-> None]

NoCalls == [thread \in Threads |-> NoCall]

Init ==
    /\ storage_json = save_storage(EmptyStorage)
    /\ now = 0
    /\ uuids = 0
    /\ ret = Outcome("main", 0, TRUE, <<>>, "")
    /\ calls = NoCalls

\* time passes between two handlers
Tick ==
    /\ UNCHANGED calls
    /\ /\ now < MaxTime
       /\ now' = now + 1
       /\ UNCHANGED <<storage_json, uuids, ret>>

start_command(from_user) ==
    /\ UNCHANGED calls
    /\ \E t2 \in now..MaxTime :
           /\ storage_json' = add_user(storage_json, from_user.id, UsernameOf(from_user),
                                       FirstNameOf(from_user), now, t2)
           /\ now' = add_user_clock(storage_json, from_user.id, now, t2)
           /\ ret' = Outcome("start", 0, TRUE, <<>>, "welcome")
           /\ UNCHANGED uuids

help_command(from_user) ==
    /\ UNCHANGED calls
    /\ /\ ret' = Outcome("help", 0, TRUE, <<>>, "help")
       /\ UNCHANGED <<storage_json, now, uuids>>

pending_command(from_user) ==
    /\ UNCHANGED calls
    /\ LET pending_books == get_pending_books(storage_json)
       IN  /\ ret' = IF ~is_admin(from_user.id)
                     THEN Outcome("pending", 0, FALSE, <<>>, "admin_only")
                     ELSE IF pending_books = <<>>
                     THEN Outcome("pending", 0, TRUE, <<>>, "no_pending")
                     ELSE Outcome("pending", 0, TRUE, pending_books, "review")
           /\ UNCHANGED <<storage_json, now, uuids>>

\* handle_approval_callback with call.data = approve_<book_id>
approve_callback(from_user, book_id) ==
    /\ UNCHANGED calls
    /\ LET r == approve_book(storage_json, book_id, "", now)
       IN  /\ IF ~is_admin(from_user.id)
              THEN /\ ret' = Outcome("callback", 0, FALSE, <<>>, "admin_only")
                   /\ UNCHANGED storage_json
              ELSE /\ storage_json' = r.file
                   /\ ret' = Outcome("approve", book_id, r.success, r.book,
                                     IF r.success THEN "approved" ELSE "error_approving")
           /\ UNCHANGED <<now, uuids>>

\* handle_approval_callback with call.data = reject_<book_id>
reject_callback(from_user, book_id) ==
    /\ UNCHANGED calls
    /\ /\ IF ~is_admin(from_user.id)
          THEN /\ ret' = Outcome("callback", 0, FALSE, <<>>, "admin_only")
               /\ UNCHANGED storage_json
          ELSE /\ storage_json' = reject_book(storage_json, book_id)
               /\ ret' = Outcome("reject", book_id, TRUE, <<>>, "rejected")
       /\ UNCHANGED <<now, uuids>>

\* title, author and link handle_document takes from the caption or the file name
DocumentFields(document) ==
    LET file_name == IF document.file_name # <<>> THEN document.file_name ELSE Unknown
        parts == Parts(document.caption)
    IN  IF document.caption # <<>>
        THEN IF Len(parts) >= 2
             THEN [title |-> parts[1], author |-> parts[2],
                   gdrive_link |-> IF Len(parts) >= 3 THEN parts[3] ELSE <<>>]
             ELSE [title |-> document.caption, author |-> Unknown, gdrive_link |-> <<>>]
        ELSE [title |-> Remove(Remove(Remove(file_name, PdfExt), DocExt), DocxExt),
              author |-> Unknown, gdrive_link |-> <<>>]

handle_document(from_user, document) ==
    /\ UNCHANGED calls
    /\ LET f == DocumentFields(document)
           book_id == uuids + 1
       IN  /\ uuids < MaxUuid
           /\ \E t2 \in now..MaxTime :
                \E t3 \in add_user_clock(storage_json, from_user.id, now, t2)..MaxTime :
                   /\ storage_json' =
                          add_book_submission(
                              add_user(storage_json, from_user.id, UsernameOf(from_user),
                                       FirstNameOf(from_user), now, t2),
                              book_id, f.title, f.author, from_user.id,
                              UsernameOf(from_user), FirstNameOf(from_user),
                              f.gdrive_link, document.file_id, t3)
                   /\ now' = t3
           /\ uuids' = book_id
           /\ ret' = Outcome("document", book_id, TRUE, <<>>, "submitted")

\* what handle_text_submission replies to a text that is no command
TextVerdict(text) ==
    LET stripped == Strip(text)
        parts == Parts(stripped)
    IN  IF ~Contains(stripped, <<"|">>) THEN "how_to_submit"
        ELSE IF Len(parts) < 2 THEN "invalid_format"
        ELSE IF parts[1] = <<>> \/ parts[2] = <<>> THEN "empty_fields"
        ELSE "submitted"

handle_text_submission(from_user, text) ==
    /\ UNCHANGED calls
    /\ LET parts == Parts(Strip(text))
           verdict == TextVerdict(text)
           book_id == uuids + 1
       IN  IF StartsWith(text, <<"/">>)
           THEN /\ ret' = Outcome("text", 0, FALSE, <<>>, "unknown_command")
                /\ UNCHANGED <<storage_json, now, uuids>>
           ELSE \E t2 \in now..MaxTime :
                  LET upserted == add_user(storage_json, from_user.id, UsernameOf(from_user),
                                           FirstNameOf(from_user), now, t2)
                      clock == add_user_clock(storage_json, from_user.id, now, t2)
                  IN  IF verdict # "submitted"
                      THEN /\ storage_json' = upserted
                           /\ now' = clock
                           /\ ret' = Outcome("text", 0, FALSE, <<>>, verdict)
                           /\ UNCHANGED uuids
                      ELSE /\ uuids < MaxUuid
                           /\ \E t3 \in clock..MaxTime :
                                /\ storage_json' =
                                       add_book_submission(
                                           upserted, book_id, parts[1], parts[2],
                                           from_user.id, UsernameOf(from_user),
                                           FirstNameOf(from_user),
                                           IF Len(parts) >= 3 THEN parts[3] ELSE <<>>,
                                           "", t3)
                                /\ now' = t3
                           /\ uuids' = book_id
                           /\ ret' = Outcome("text", book_id, TRUE, <<>>, "submitted")

\* utils.clean_old_data(days), the periodic retention cleanup
clean_old_data_call(days) ==
    /\ UNCHANGED calls
    /\ /\ storage_json' = clean_old_data(storage_json, days, now)
       /\ ret' = Outcome("cleanup", 0, TRUE, <<>>, "")
       /\ UNCHANGED <<now, uuids>>

\* the handlers of main.py
NextBot ==
    \/ Tick
    \/ \E from_user \in Senders : start_command(from_user)
    \/ \E from_user \in Senders : help_command(from_user)
    \/ \E from_user \in Senders : pending_command(from_user)
    \/ \E from_user \in Senders, book_id \in BookIds : approve_callback(from_user, book_id)
    \/ \E from_user \in Senders, book_id \in BookIds : reject_callback(from_user, book_id)
    \/ \E from_user \in Senders, document \in Documents :
           handle_document(from_user, document)
    \/ \E from_user \in Senders, text \in Texts : handle_text_submission(from_user, text)

\* the handlers, and the retention cleanup
Next ==
    \/ NextBot
    \/ \E days \in Days : clean_old_data_call(days)

Spec == Init /\ [][Next]_vars

SpecBot == Init /\ [][NextBot]_vars

\* the two intake handlers, on every short text and caption
NextIntake ==
    \/ \E from_user \in IntakeSenders, text \in IntakeTexts :
           handle_text_submission(from_user, text)
    \/ \E from_user \in IntakeSenders, document \in IntakeDocuments :
           handle_document(from_user, document)

SpecIntake == Init /\ [][NextIntake]_vars

(***************************************************************************)
(* The administrators' operations, on the stores that /start and document  *)
(* uploads build.                                                          *)
(***************************************************************************)
get_all_users(file) == load_storage(file).users

\* message.text.split(' ', 1)
SplitOnce(s, sep) ==
    IF \E i \in 1..Len(s) : s[i] = sep
    THEN LET i == CHOOSE i \in 1..Len(s) : s[i] = sep /\ \A j \in 1..(i - 1) : s[j] # sep
         IN  <<SubSeq(s, 1, i - 1), SubSeq(s, i + 1, Len(s))>>
    ELSE <<s>>

\* /broadcast without and with a message
BroadcastTexts ==
    {<<"/", "b", "r", "o", "a", "d", "c", "a", "s", "t">>,
     <<"/", "b", "r", "o", "a", "d", "c", "a", "s", "t", " ", "h", "i">>}

\* broadcast_command: out is the ids of the users the message is sent to
broadcast_command(from_user, text) ==
    /\ UNCHANGED calls
    /\ LET command_parts == SplitOnce(text, " ")
           users == get_all_users(storage_json)
       IN  /\ ret' = IF ~is_admin(from_user.id)
                     THEN Outcome("broadcast", 0, FALSE, <<>>, "admin_only")
                     ELSE IF Len(command_parts) < 2
                     THEN Outcome("broadcast", 0, FALSE, <<>>, "usage")
                     ELSE IF users = <<>>
                     THEN Outcome("broadcast", 0, FALSE, <<>>, "no_users")
                     ELSE Outcome("broadcast", 0, TRUE,
                                  [i \in 1..Len(users) |-> users[i].id], "completed")
           /\ UNCHANGED <<storage_json, now, uuids>>

NextAdmin ==
    \/ \E from_user \in Senders : start_command(from_user)
    \/ \E from_user \in Senders, document \in Documents :
           handle_document(from_user, document)
    \/ \E from_user \in Senders : pending_command(from_user)
    \/ \E from_user \in Senders, book_id \in BookIds : approve_callback(from_user, book_id)
    \/ \E from_user \in Senders, book_id \in BookIds : reject_callback(from_user, book_id)
    \/ \E from_user \in Senders, text \in BroadcastTexts : broadcast_command(from_user, text)

SpecAdmin == Init /\ [][NextAdmin]_vars

(***************************************************************************)
(* The leaderboard and statistics handlers, which only read the store.     *)
(* They are run on stores of two families: every store of at most          *)
(* MaxBoardBooks submissions of two submitters, each submission pending or *)
(* approved 6, 7 or 8 days ago or approved with a missing or unparsable    *)
(* approved_date; and the stores in which each of MaxSubmitters submitters *)
(* has one or two approved submissions.                                    *)
(***************************************************************************)
Kinds == {"in6", "in7", "out8", "missing", "invalid", "pending"}

BoardSubmitters == {1, 2}

\* the submission stored at position id: the submitter's names differ from one
\* submission to the next
BoardBook(id, submitter, kind) ==
    [id |-> id,
     title |-> <<"a">>,
     author |-> <<"b">>,
     submitter_id |-> submitter,
     submitter_username |-> IF id % 2 = 1 THEN "ann" ELSE "anna",
     submitter_name |-> IF id % 2 = 1 THEN "Ann" ELSE "Anna",
     gdrive_link |-> <<>>,
     file_id |-> "",
     timestamp |-> 0,
     approved |-> kind # "pending",
     approved_date |->
         CASE kind = "in6" -> Some(BoardNow - 6)
           [] kind = "in7" -> Some(BoardNow - 7)
           [] kind = "out8" -> Some(BoardNow - 8)
           [] kind = "invalid" -> Some(InvalidDate)
           [] OTHER -> None,
     approved_by |-> IF kind \in {"pending", "missing"} THEN None ELSE Some("")]

\* the users of a store: the submitters, in the order of their first submission
RECURSIVE BoardUsers(_)
BoardUsers(books) ==
    IF books = <<>> THEN <<>>
    ELSE LET done == BoardUsers(SubSeq(books, 1, Len(books) - 1))
             id == books[Len(books)].submitter_id
         IN  IF IndexOfId(done, id) # 0 THEN done
             ELSE Append(done, [id |-> id,
                                username |-> "user" \o ToString(id),
                                first_name |-> "User" \o ToString(id),
                                joined_date |-> 0, last_seen |-> 0])

BoardStore(input) ==
    LET books == [i \in 1..Len(input) |-> BoardBook(i, input[i][1], input[i][2])]
    IN  [users |-> BoardUsers(books), books |-> books]

SmallInputs == UNION {[1..n -> BoardSubmitters \X Kinds] : n \in 0..MaxBoardBooks}

\* submitter MaxSubmitters + 1 - p submits at position p, and those with two
\* submissions submit once more afterwards, in the opposite order
CrowdInput(twice) ==
    [p \in 1..MaxSubmitters |-> <<MaxSubmitters + 1 - p, "in6">>]
        \o SelectSeq([p \in 1..MaxSubmitters |-> <<p, "in6">>],
                     LAMBDA e : e[1] \in twice)

CrowdInputs == {CrowdInput(twice) : twice \in SUBSET (1..MaxSubmitters)}

BoardStores == {BoardStore(input) : input \in SmallInputs \cup CrowdInputs}

InitBoard ==
    /\ storage_json \in {save_storage(store) : store \in BoardStores}
    /\ now = BoardNow
    /\ uuids = Len(load_storage(storage_json).books)
    /\ ret = Outcome("main", 0, TRUE, <<>>, "")
    /\ calls = NoCalls

\* the days of the leaderboard shown for a period button; weekly is the default
Periods == {"weekly", "monthly", "alltime", "refresh"}

PeriodDays(period) ==
    CASE period = "monthly" -> Some(MonthDays)
      [] period = "alltime" -> None
      [] OTHER -> Some(WeekDays)

\* /leaderboard, and the show_leaderboard button: the weekly leaderboard
leaderboard_command ==
    /\ UNCHANGED calls
    /\ /\ ret' = Outcome("leaderboard", 0, TRUE,
                         get_leaderboard_by_period(storage_json, Some(WeekDays), now),
                         "weekly")
       /\ UNCHANGED <<storage_json, now, uuids>>

\* handle_approval_callback with call.data = leaderboard_<period>
leaderboard_callback(period) ==
    /\ UNCHANGED calls
    /\ /\ ret' = Outcome("leaderboard", 0, TRUE,
                         get_leaderboard_by_period(storage_json, PeriodDays(period), now),
                         IF period = "refresh" THEN "weekly" ELSE period)
       /\ UNCHANGED <<storage_json, now, uuids>>

\* handle_approval_callback with call.data = show_stats: formatting the text
\* raises when most_active_user is None, and the handler answers with an error
show_stats_callback ==
    /\ UNCHANGED calls
    /\ LET stats == get_library_stats(storage_json)
       IN  /\ ret' = IF stats.most_active_user = None
                     THEN Outcome("stats", 0, FALSE, <<>>, "error")
                     ELSE Outcome("stats", 0, TRUE, Some(stats), "stats")
           /\ UNCHANGED <<storage_json, now, uuids>>

\* utils.get_user_stats(user_id)
get_user_stats_call(user_id) ==
    /\ UNCHANGED calls
    /\ /\ ret' = Outcome("user_stats", user_id, TRUE,
                         Some(get_user_stats(storage_json, user_id)), "")
       /\ UNCHANGED <<storage_json, now, uuids>>

\* the user ids statistics are asked for: the two submitters and somebody unknown
StatsIds == {1, 2, 3}

NextBoard ==
    \/ leaderboard_command
    \/ \E period \in Periods : leaderboard_callback(period)
    \/ show_stats_callback
    \/ \E user_id \in StatsIds : get_user_stats_call(user_id)

SpecBoard == InitBoard /\ [][NextBoard]_vars

(***************************************************************************)
(* Links.  add_book_submission is called with links put together from a    *)
(* host and up to MaxSegments pattern heads, each followed by an id or by   *)
(* nothing.                                                                *)
(***************************************************************************)
MaxSegments == 2

Https == <<"h", "t", "t", "p", "s", ":", "/", "/">>
LinkHosts == {Https \o DriveDomain, <<"x", ".", "c", "o">>}
LinkHeads == {FileDPrefix, <<"?">> \o IdParam, DPrefix, <<"/", "x", "/">>}
LinkIds == {<<>>, <<"A", "-", "_", "9">>, <<"b">>}

\* the paths of exactly n segments
RECURSIVE LinkPathsOf(_)
LinkPathsOf(n) ==
    IF n = 0 THEN {<<>>}
    ELSE {path \o head \o id :
             path \in LinkPathsOf(n - 1), head \in LinkHeads, id \in LinkIds}

LinkPaths == UNION {LinkPathsOf(n) : n \in 0..MaxSegments}

Links ==
    {<<>>} \cup {host \o path : host \in LinkHosts, path \in LinkPaths}

InitLink ==
    /\ storage_json = save_storage(EmptyStorage)
    /\ now = 0
    /\ uuids = 0
    /\ ret = Outcome("main", 0, TRUE, <<>>, "")
    /\ calls = NoCalls

\* utils.add_book_submission(title, author, ..., gdrive_link): ret.out is the
\* link it was given
add_book_submission_call(gdrive_link) ==
    /\ UNCHANGED calls
    /\ LET book_id == uuids + 1
       IN  /\ uuids < MaxUuid
           /\ storage_json' = add_book_submission(storage_json, book_id, <<"a">>, <<"b">>,
                                                  2, "bob", "Bob", gdrive_link, "", now)
           /\ uuids' = book_id
           /\ ret' = Outcome("submit", book_id, TRUE, gdrive_link, "")
           /\ UNCHANGED now

NextLink == \E gdrive_link \in Links : add_book_submission_call(gdrive_link)

SpecLink == InitLink /\ [][NextLink]_vars

(***************************************************************************)
(* The file.  json.dump writes a store as a text and json.load reads it    *)
(* back.  The text is a sequence of tokens: the brackets, the keys and the *)
(* scalars.  A scalar token carries the JSON type of the value, and for a  *)
(* JSON string what the model holds for it: "string" (a name), "text" (a   *)
(* sequence of characters), "date" (an isoformat reading of the clock) or  *)
(* "uuid" (str(uuid4())).                                                  *)
(***************************************************************************)
UserKeys == <<"id", "username", "first_name", "joined_date", "last_seen">>

BookKeys == <<"id", "title", "author", "submitter_id", "submitter_username", "submitter_name", "gdrive_link", "file_id", "timestamp", "approved", "approved_date", "approved_by">>

UserKinds ==
    [id |-> "number", username |-> "string", first_name |-> "string",
     joined_date |-> "date", last_seen |-> "date"]

BookKinds ==
    [id |-> "uuid", title |-> "text", author |-> "text", submitter_id |-> "number",
     submitter_username |-> "string", submitter_name |-> "string",
     gdrive_link |-> "text", file_id |-> "string", timestamp |-> "date",
     approved |-> "bool", approved_date |-> "date or None",
     approved_by |-> "string or None"]

\* the keys whose value is None or a string: an optional value in the model
OptionalKeys == {"approved_date", "approved_by"}

Scalars == {"string", "text", "date", "uuid", "number", "null", "true", "false"}

\* what json.dump writes for a value
json_token(kind, value) ==
    CASE kind = "bool" -> <<IF value THEN "true" ELSE "false">>
      [] kind = "date or None" -> IF value = None THEN <<"null">> ELSE <<"date", value[1]>>
      [] kind = "string or None" ->
            IF value = None THEN <<"null">> ELSE <<"string", value[1]>>
      [] OTHER -> <<kind, value>>

RECURSIVE Flatten(_)
Flatten(seqs) == IF seqs = <<>> THEN <<>> ELSE Head(seqs) \o Flatten(Tail(seqs))

\* a dict is written with its keys in the order of their insertion
dump_dict(dict, keys, kinds) ==
    <<<<"{">>>>
        \o Flatten([i \in 1..Len(keys) |->
                       <<<<"key", keys[i]>>, json_token(kinds[keys[i]], dict[keys[i]])>>])
        \o <<<<"}">>>>

dump_list(items, keys, kinds) ==
    <<<<"[">>>>
        \o Flatten([i \in 1..Len(items) |-> dump_dict(items[i], keys, kinds)])
        \o <<<<"]">>>>

\* a variant of json_dump that writes an empty approved_by as null
json_dump_null_approver(data) ==
    LET nulled == [i \in 1..Len(data.books) |->
                      IF data.books[i].approved_by = Some("")
                      THEN [data.books[i] EXCEPT !.approved_by = None]
                      ELSE data.books[i]]
    IN  <<<<"{">>, <<"key", "users">>>>
            \o dump_list(data.users, UserKeys, UserKinds)
            \o <<<<"key", "books">>>>
            \o dump_list(nulled, BookKeys, BookKinds)
            \o <<<<"}">>>>

\* json.dump(data, f): the text of the store
json_dump(data) ==
    <<<<"{">>, <<"key", "users">>>>
        \o dump_list(data.users, UserKeys, UserKinds)
        \o <<<<"key", "books">>>>
        \o dump_list(data.books, BookKeys, BookKinds)
        \o <<<<"}">>>>

\* the value json.load makes of a scalar token
json_scalar(token) ==
    CASE token[1] = "null" -> None
      [] token[1] = "true" -> TRUE
      [] token[1] = "false" -> FALSE
      [] OTHER -> token[2]

\* the dict of the (key, value) pairs read: the last value of a key stays
dict_of(pairs) ==
    [key \in {pairs[i][1] : i \in 1..Len(pairs)} |->
        pairs[CHOOSE i \in 1..Len(pairs) :
                  /\ pairs[i][1] = key
                  /\ \A j \in (i + 1)..Len(pairs) : pairs[j][1] # key][2]]

\* the parser raised
Raised == [ok |-> FALSE, value |-> <<>>, rest |-> <<>>]

Parsed(value, rest) == [ok |-> TRUE, value |-> value, rest |-> rest]

RECURSIVE parse_value(_), parse_members(_, _), parse_elements(_, _)
parse_value(tokens) ==
    IF tokens = <<>> THEN Raised
    ELSE CASE tokens[1][1] = "{" -> parse_members(Tail(tokens), <<>>)
           [] tokens[1][1] = "[" -> parse_elements(Tail(tokens), <<>>)
           [] tokens[1][1] \in Scalars -> Parsed(json_scalar(tokens[1]), Tail(tokens))
           [] OTHER -> Raised

parse_members(tokens, pairs) ==
    IF tokens = <<>> THEN Raised
    ELSE IF tokens[1][1] = "}" THEN Parsed(dict_of(pairs), Tail(tokens))
    ELSE IF tokens[1][1] # "key" \/ Len(tokens) < 2 THEN Raised
    ELSE LET key == tokens[1][2]
             r == parse_value(Tail(tokens))
             value == IF key \in OptionalKeys /\ tokens[2][1] # "null"
                      THEN Some(r.value) ELSE r.value
         IN  IF r.ok THEN parse_members(r.rest, Append(pairs, <<key, value>>))
             ELSE Raised

parse_elements(tokens, items) ==
    IF tokens = <<>> THEN Raised
    ELSE IF tokens[1][1] = "]" THEN Parsed(items, Tail(tokens))
    ELSE LET r == parse_value(tokens)
         IN  IF r.ok THEN parse_elements(r.rest, Append(items, r.value)) ELSE Raised

\* json.load(f): the value of a text that is one JSON value and nothing more
json_load(content) ==
    LET r == parse_value(content)
    IN  IF r.ok /\ r.rest = <<>> THEN r ELSE Raised

\* a variant of load_storage_file in which open and read never raise
load_storage_file_always_readable(file, readable) ==
    IF file = None THEN EmptyStorage
    ELSE IF ~json_load(file[1]).ok THEN EmptyStorage
    ELSE json_load(file[1]).value

\* load_storage on the file as it is: storage.json may not exist, open or read
\* may raise (readable is FALSE), json.load may raise; the exceptions are
\* caught and the empty store returned
load_storage_file(file, readable) ==
    IF file = None THEN EmptyStorage
    ELSE IF ~readable THEN EmptyStorage
    ELSE IF ~json_load(file[1]).ok THEN EmptyStorage
    ELSE json_load(file[1]).value

\* open('storage.json', 'w') makes the file, or empties it
open_w(file) == Some(<<>>)

\* a byte of a hole that a write beyond the end of the file leaves
Nul == <<"nul">>

\* a variant of write_at that writes at the end of the file
write_at_end(file, off, tokens) == Some(file[1] \o tokens)

\* the file after tokens are written at offset off of it
write_at(file, off, tokens) ==
    LET content == file[1]
        end == off + Len(tokens)
    IN  Some([i \in 1..(IF Len(content) > end THEN Len(content) ELSE end) |->
                 IF off < i /\ i <= end THEN tokens[i - off]
                 ELSE IF i <= Len(content) THEN content[i]
                 ELSE Nul])

(***************************************************************************)
(* The store functions at the level of the file.  A call loads, changes    *)
(* the store it loaded, and saves; save_storage opens the file for         *)
(* writing, which empties it, and json.dump's output reaches the file when *)
(* the file is closed, or in part when the write raises.  The threads take *)
(* their steps in any order.  Here storage_json is None when the file does *)
(* not exist and else Some(text), the text being the tokens in the file.   *)
(***************************************************************************)
FileOps ==
    {[name |-> "add_user", id |-> 1], [name |-> "add_user", id |-> 2],
     [name |-> "add_book_submission", id |-> 2],
     [name |-> "approve_book", id |-> 1],
     [name |-> "reject", id |-> 1], [name |-> "reject", id |-> 2],
     [name |-> "get_pending_books", id |-> 0]}

\* whether the call saves, and the store it saves: what the function makes of
\* the store it loaded
Change(op, base, book_id, t) ==
    LET file == save_storage(base)
    IN  CASE op.name = "add_user" ->
               [saves |-> TRUE,
                storage |-> load_storage(
                    IF op.id = 1 THEN add_user(file, 1, "Unknown", "User", t, t)
                    ELSE add_user(file, 2, "bob", "Bob", t, t))]
          [] op.name = "add_book_submission" ->
               [saves |-> TRUE,
                storage |-> load_storage(
                    add_book_submission(file, book_id, <<"a">>, <<"b">>, op.id, "bob",
                                        "Bob", <<>>, "F1", t))]
          [] op.name = "approve_book" ->
               [saves |-> approve_book(file, op.id, "", t).success,
                storage |-> load_storage(approve_book(file, op.id, "", t).file)]
          [] op.name = "reject" ->
               [saves |-> TRUE, storage |-> load_storage(reject_book(file, op.id))]
          [] OTHER -> [saves |-> FALSE, storage |-> base]

\* the stores the file holds at the start: the empty one, one user with one
\* pending submission, and the same with the submission approved
PendingStore ==
    load_storage(add_book_submission(
        add_user(save_storage(EmptyStorage), 1, "neo", "Neo", 0, 0),
        1, <<"a">>, <<"b">>, 1, "neo", "Neo", <<>>, "F1", 0))

ApprovedStore == load_storage(approve_book(save_storage(PendingStore), 1, "", 0).file)

FileStores == {EmptyStorage, PendingStore, ApprovedStore}

InitFile ==
    /\ storage_json \in {None} \cup {Some(json_dump(store)) : store \in FileStores}
    /\ now = 0
    /\ uuids = Len(load_storage_file(storage_json, TRUE).books)
    /\ ret = Outcome("main", 0, TRUE, <<>>, "")
    /\ calls = NoCalls

\* the thread calls a store function: load_storage() and the change
call(thread, op) ==
    /\ calls[thread].pc \notin {"loaded", "opened"}
    /\ calls[thread].made < MaxCalls
    /\ op.name = "add_book_submission" => uuids < MaxUuid
    /\ \E readable \in BOOLEAN :
         LET base == load_storage_file(storage_json, readable)
             change == Change(op, base, uuids + 1, now)
         IN  /\ calls' = [calls EXCEPT ![thread] =
                            [pc |-> IF change.saves THEN "loaded" ELSE "returned",
                             op |-> op, base |-> base, storage |-> change.storage,
                             off |-> 0, raced |-> {}, overlap |-> FALSE,
                             made |-> @.made + 1, held |-> storage_json]]
             /\ ret' = Outcome("load_storage", op.id, readable, base, op.name)
    /\ uuids' = IF op.name = "add_book_submission" THEN uuids + 1 ELSE uuids
    /\ UNCHANGED <<storage_json, now>>

\* save_storage: open('storage.json', 'w')
save_open(thread) ==
    /\ calls[thread].pc = "loaded"
    /\ storage_json' = open_w(storage_json)
    /\ calls' = [other \in Threads |->
                    IF other = thread
                    THEN [calls[thread] EXCEPT
                             !.pc = "opened",
                             !.raced = {t \in Threads \ {thread} : calls[t].pc = "loaded"},
                             !.overlap = \E t \in Threads \ {thread} : calls[t].pc = "opened"]
                    ELSE IF calls[other].pc = "opened"
                    THEN [calls[other] EXCEPT !.overlap = TRUE]
                    ELSE calls[other]]
    /\ ret' = Outcome("save_storage", calls[thread].op.id, TRUE, <<>>, "opened")
    /\ UNCHANGED <<now, uuids>>

\* save_storage: open raises, save_storage returns False
save_open_fails(thread) ==
    /\ calls[thread].pc = "loaded"
    /\ calls' = [calls EXCEPT ![thread].pc = "failed"]
    /\ ret' = Outcome("save_storage", calls[thread].op.id, FALSE, <<>>, "failed")
    /\ UNCHANGED <<storage_json, now, uuids>>

\* save_storage: json.dump has run and the file is closed, save_storage returns True
save_close(thread) ==
    LET tokens == json_dump(calls[thread].storage)
    IN  /\ calls[thread].pc = "opened"
        /\ storage_json' = write_at(storage_json, 0, tokens)
        /\ calls' = [calls EXCEPT ![thread].pc = "saved", ![thread].off = Len(tokens)]
        /\ ret' = Outcome("save_storage", calls[thread].op.id, TRUE, <<>>, "saved")
        /\ UNCHANGED <<now, uuids>>

\* save_storage: the write raises after nothing or half of the text has reached
\* the file, save_storage returns False; the calls in which it raises are those
\* that have had the file open alone
save_dump_fails(thread) ==
    LET tokens == json_dump(calls[thread].storage)
    IN  /\ calls[thread].pc = "opened"
        /\ ~calls[thread].overlap
        /\ \E off \in {0, Len(tokens) \div 2} :
             /\ storage_json' = write_at(storage_json, 0, SubSeq(tokens, 1, off))
             /\ calls' = [calls EXCEPT ![thread].pc = "failed", ![thread].off = off]
        /\ ret' = Outcome("save_storage", calls[thread].op.id, FALSE, <<>>, "failed")
        /\ UNCHANGED <<now, uuids>>

\* what the function has returned once save_storage has returned: the result of
\* save_storage is not looked at; add_user returns True, add_book_submission
\* the id of the new submission (id, 0 for the empty string), approve_book
\* True for an id it found, and False when it found none and did not save
call_returns(frame) ==
    CASE frame.pc \in {"saved", "failed"} /\ frame.op.name = "add_book_submission" ->
           [ok |-> TRUE, id |-> frame.storage.books[Len(frame.storage.books)].id]
      [] frame.pc \in {"saved", "failed"} -> [ok |-> TRUE, id |-> frame.op.id]
      [] OTHER -> [ok |-> FALSE, id |-> frame.op.id]

NextFile ==
    \/ \E thread \in Threads, op \in FileOps : call(thread, op)
    \/ \E thread \in Threads : save_open(thread)
    \/ \E thread \in Threads : save_open_fails(thread)
    \/ \E thread \in Threads : save_close(thread)
    \/ \E thread \in Threads : save_dump_fails(thread)

SpecFile == InitFile /\ [][NextFile]_vars

(***************************************************************************)
(* The store as the next load_storage() returns it.                        *)
(***************************************************************************)
Users == load_storage(storage_json).users
Books == load_storage(storage_json).books

IdsOf(seq) == {seq[i].id : i \in 1..Len(seq)}

DistinctIds(seq) == \A i, j \in 1..Len(seq) : seq[i].id = seq[j].id => i = j

BookOfId(seq, id) == seq[IndexOfId(seq, id)]

\* the steps of the handlers
StartStep(from_user) == ret'.op = "start" /\ start_command(from_user)
HelpStep(from_user) == ret'.op = "help" /\ help_command(from_user)
TextStep(from_user, text) == ret'.op = "text" /\ handle_text_submission(from_user, text)
DocumentStep(from_user, document) ==
    ret'.op = "document" /\ handle_document(from_user, document)
ApproveStep(book_id) ==
    /\ ret'.op = "approve"
    /\ ret'.id = book_id
    /\ \E from_user \in Senders :
          is_admin(from_user.id) /\ approve_callback(from_user, book_id)
RejectStep(book_id) ==
    /\ ret'.op = "reject"
    /\ ret'.id = book_id
    /\ \E from_user \in Senders :
          is_admin(from_user.id) /\ reject_callback(from_user, book_id)
CleanupStep == ret'.op = "cleanup" /\ \E days \in Days : clean_old_data_call(days)

(***************************************************************************)
(* C1.  Every submit appends one submission with approved = FALSE,         *)
(* approved_date = None and approved_by = None, whose id is the one        *)
(* returned and differs from every id generated before (1..uuids), those   *)
(* of submissions since rejected or cleaned up included; and the ids of    *)
(* the stored submissions are pairwise distinct in every state.            *)
(***************************************************************************)
SubmitStep == ret'.reply = "submitted" /\ uuids' = uuids + 1

C1_SubmitFreshId ==
    /\ [](DistinctIds(Books) /\ IdsOf(Books) \subseteq 1..uuids)
    /\ [][SubmitStep =>
            /\ Len(Books') = Len(Books) + 1
            /\ SubSeq(Books', 1, Len(Books)) = Books
            /\ LET new == Books'[Len(Books')]
               IN  /\ new.id = ret'.id
                   /\ new.id \notin 1..uuids
                   /\ new.id \notin IdsOf(Books)
                   /\ new.approved = FALSE
                   /\ new.approved_date = None
                   /\ new.approved_by = None]_vars

\* a submission is stored under the second id after the first one was removed
C1_Witness ==
    /\ ret.reply = "submitted"
    /\ ret.id = 2
    /\ IdsOf(Books) = {2}

(***************************************************************************)
(* C2.  approve_book(id, approved_by) on a stored id sets that             *)
(* submission's approved, approved_date (the clock's reading) and          *)
(* approved_by, saves the document and returns (True, the stored record    *)
(* after the change); no other submission and no user changes.  It holds   *)
(* of the function for every approver in every reachable store, and of     *)
(* every approval the callback handler makes.                              *)
(***************************************************************************)
ApprovePost(before, after, id, by, t, returned) ==
    /\ after.users = before.users
    /\ Len(after.books) = Len(before.books)
    /\ \A i \in 1..Len(before.books) :
         after.books[i] =
             IF before.books[i].id = id
             THEN [before.books[i] EXCEPT !.approved = TRUE,
                                          !.approved_date = Some(t),
                                          !.approved_by = Some(by)]
             ELSE before.books[i]
    /\ returned = Some(BookOfId(after.books, id))

C2_ApproveSetsFields ==
    /\ [](\A id \in IdsOf(Books), by \in Approvers, t \in 0..MaxTime :
            LET r == approve_book(storage_json, id, by, t)
            IN  /\ r.success
                /\ r.file # None
                /\ ApprovePost(load_storage(storage_json), load_storage(r.file),
                               id, by, t, r.book))
    /\ [][\A id \in IdsOf(Books) :
            ApproveStep(id) =>
                /\ ret'.ok
                /\ ApprovePost(load_storage(storage_json), load_storage(storage_json'),
                               id, "", now', ret'.out)]_vars

\* the second of two stored submissions was approved, the first is still pending
C2_Witness ==
    /\ ret.op = "approve" /\ ret.ok /\ ret.id = 2
    /\ Len(Books) = 2
    /\ ~Books[1].approved
    /\ Books[2].approved /\ Books[2].approved_by = Some("")
    /\ Books[2].approved_date = Some(now)
    /\ Len(Users) = 2

(***************************************************************************)
(* C3.  approve_book on an id that no stored submission has returns        *)
(* (False, None) and leaves the document as it was: same users, same       *)
(* submissions.                                                            *)
(***************************************************************************)
C3_ApproveUnknownId ==
    /\ [](\A id \in BookIds \ IdsOf(Books), by \in Approvers, t \in 0..MaxTime :
            LET r == approve_book(storage_json, id, by, t)
            IN  /\ r.success = FALSE
                /\ r.book = None
                /\ r.file = storage_json)
    /\ [][\A id \in BookIds \ IdsOf(Books) :
            ApproveStep(id) =>
                /\ ~ret'.ok
                /\ ret'.out = None
                /\ storage_json' = storage_json]_vars

\* an approval of the removed first submission failed, the second one is stored
C3_Witness ==
    /\ ret.op = "approve" /\ ~ret.ok /\ ret.id = 1
    /\ IdsOf(Books) = {2}
    /\ Users # <<>>

(***************************************************************************)
(* C4.  Once approved, a submission stays in the store, approved, in every *)
(* later state: no handler and no cleanup removes it or takes the approval *)
(* back, a reject with its id included.                                    *)
(***************************************************************************)
C4_ApprovedStays ==
    [][\A i \in 1..Len(Books) :
          Books[i].approved =>
              \E j \in 1..Len(Books') :
                  Books'[j].id = Books[i].id /\ Books'[j].approved]_vars

(***************************************************************************)
(* C5.  In every state, a stored submission with approved = FALSE has      *)
(* approved_date = None and approved_by = None.                            *)
(***************************************************************************)
C5_UnapprovedHasNoApproval ==
    \A i \in 1..Len(Books) :
        ~Books[i].approved =>
            Books[i].approved_date = None /\ Books[i].approved_by = None

\* a pending submission stored beside an approved one
C5_Witness ==
    /\ Len(Books) = 2
    /\ Books[1].approved /\ Books[1].approved_by # None
    /\ ~Books[2].approved

(***************************************************************************)
(* C6.  In every state, every stored submission has a title and an author  *)
(* that are not empty after trimming, whether a text message or a document *)
(* upload, with or without caption, created it.                            *)
(***************************************************************************)
C6_TitleAuthorNonEmpty ==
    \A i \in 1..Len(Books) :
        Strip(Books[i].title) # <<>> /\ Strip(Books[i].author) # <<>>

(***************************************************************************)
(* C7.  In every state the users collection holds at most one user per id, *)
(* and no step removes a user: the set of user ids only grows.             *)
(***************************************************************************)
C7_OneUserPerId ==
    /\ []DistinctIds(Users)
    /\ [][IdsOf(Users) \subseteq IdsOf(Users')]_vars

\* two users are stored, and the first one was upserted again later
C7_Witness ==
    /\ Len(Users) = 2
    /\ Users[1].last_seen > Users[1].joined_date
    /\ ret.op = "start"

(***************************************************************************)
(* C8.  add_user on a stored id overwrites only that user's username,      *)
(* first_name and last_seen (joined_date keeps its value, no user is       *)
(* added); on an id not stored it appends exactly one user with            *)
(* joined_date = last_seen = the time of the call; in both cases no other  *)
(* user and no submission changes.  Stated of the upsert /start makes.     *)
(***************************************************************************)
UpsertPost(before, after, from_user, t) ==
    /\ after.books = before.books
    /\ IF from_user.id \in IdsOf(before.users)
       THEN /\ Len(after.users) = Len(before.users)
            /\ \A i \in 1..Len(before.users) :
                 after.users[i] =
                     IF before.users[i].id = from_user.id
                     THEN [before.users[i] EXCEPT
                              !.username = UsernameOf(from_user),
                              !.first_name = FirstNameOf(from_user),
                              !.last_seen = t]
                     ELSE before.users[i]
       ELSE after.users = Append(before.users,
                                 [id |-> from_user.id,
                                  username |-> UsernameOf(from_user),
                                  first_name |-> FirstNameOf(from_user),
                                  joined_date |-> t,
                                  last_seen |-> t])

C8_UpsertFrame ==
    [][\A from_user \in Senders :
          StartStep(from_user) =>
              UpsertPost(load_storage(storage_json), load_storage(storage_json'),
                         from_user, now')]_vars

(***************************************************************************)
(* C9.  After the handling of a start command, of a text message that is   *)
(* no command, or of a document upload sent by a sender, the store holds a *)
(* user with the sender's id, username and first name ("Unknown" and       *)
(* "User" when the sender has none); the help command upserts nobody and   *)
(* leaves the store as it was.                                             *)
(***************************************************************************)
HasSender(users, from_user) ==
    \E i \in 1..Len(users) :
        /\ users[i].id = from_user.id
        /\ users[i].username = UsernameOf(from_user)
        /\ users[i].first_name = FirstNameOf(from_user)

IsCommand(text) == StartsWith(text, <<"/">>)

PendingView(pending, books) ==
    /\ \A k \in 1..Len(pending) :
         ~pending[k].approved /\ \E i \in 1..Len(books) : books[i] = pending[k]
    /\ \A i \in 1..Len(books) :
         ~books[i].approved =>
             Cardinality({k \in 1..Len(pending) : pending[k] = books[i]}) = 1
    /\ \A k, l \in 1..Len(pending) :
         k < l => IndexOfId(books, pending[k].id) < IndexOfId(books, pending[l].id)

PendingIds(file) == IdsOf(get_pending_books(file))

C10_PendingBooks ==
    /\ [](/\ PendingView(get_pending_books(storage_json), Books)
          /\ (ret.op = "pending" /\ ret.ok) => PendingView(ret.out, Books))
    /\ [][\A id \in PendingIds(storage_json) :
            id \notin PendingIds(storage_json') =>
                /\ ApproveStep(id) \/ RejectStep(id) \/ CleanupStep
                /\ \A i \in 1..Len(Books') : Books'[i].id = id => Books'[i].approved]_vars

\* /pending listed the one pending submission that is stored behind an approved one
C10_Witness ==
    /\ ret.op = "pending" /\ ret.ok
    /\ Len(Books) = 2
    /\ Books[1].approved
    /\ Len(ret.out) = 1
    /\ ret.out[1].id = 2

(***************************************************************************)
(* C11.  A rejection of a pending submission removes that submission and   *)
(* nothing else: the other submissions keep their content and order, the   *)
(* users are unchanged; and an id that was issued and is no longer stored  *)
(* is never stored again.                                                  *)
(***************************************************************************)
Without(books, id) ==
    SubSeq(books, 1, IndexOfId(books, id) - 1)
        \o SubSeq(books, IndexOfId(books, id) + 1, Len(books))

C11_RejectRemovesOne ==
    [][/\ \A id \in PendingIds(storage_json) :
            RejectStep(id) =>
                /\ Books' = Without(Books, id)
                /\ Len(Books') = Len(Books) - 1
                /\ Users' = Users
       /\ \A id \in (1..uuids) \ IdsOf(Books) : id \notin IdsOf(Books')]_vars

\* the first of two pending submissions was rejected, the second one is left
C11_Witness ==
    /\ ret.op = "reject" /\ ret.id = 1
    /\ uuids = 2
    /\ IdsOf(Books) = {2}
    /\ ~Books[1].approved
    /\ Len(Users) = 2

(***************************************************************************)
(* C12.  A rejection of an id that no stored submission has is answered as *)
(* a failure, not as a rejection, and leaves the store as it was.          *)
(***************************************************************************)
C12_RejectUnknownFails ==
    [][\A id \in BookIds \ IdsOf(Books) :
          RejectStep(id) =>
              /\ ~ret'.ok
              /\ ret'.reply # "rejected"
              /\ storage_json' = storage_json]_vars

(***************************************************************************)
(* C13.  clean_old_data(days) removes exactly the submissions that are     *)
(* unapproved and dated before now - days: every approved submission and   *)
(* every unapproved one dated at or after now - days survives, survivors   *)
(* keep content and relative order, and the users are unchanged.           *)
(***************************************************************************)
CleanupPost(before, after, days, t) ==
    /\ after.users = before.users
    /\ \A i \in 1..Len(before.books) :
         IF ~before.books[i].approved /\ before.books[i].timestamp < t - days
         THEN before.books[i].id \notin IdsOf(after.books)
         ELSE \E j \in 1..Len(after.books) : after.books[j] = before.books[i]
    /\ \A j \in 1..Len(after.books) :
         \E i \in 1..Len(before.books) : before.books[i] = after.books[j]
    /\ \A k, l \in 1..Len(after.books) :
         k < l => IndexOfId(before.books, after.books[k].id)
                    < IndexOfId(before.books, after.books[l].id)

CleanupStepOf(days) == ret'.op = "cleanup" /\ clean_old_data_call(days)

C13_CleanupRemovesOldPending ==
    /\ [](\A days \in Days :
            CleanupPost(load_storage(storage_json),
                        load_storage(clean_old_data(storage_json, days, now)),
                        days, now))
    /\ [][\A days \in Days :
            CleanupStepOf(days) =>
                CleanupPost(load_storage(storage_json), load_storage(storage_json'),
                            days, now')]_vars

\* a cleanup removed an unapproved submission and kept an approved one of the
\* same age
C13_Witness ==
    /\ ret.op = "cleanup"
    /\ now = 1
    /\ uuids = 2
    /\ Len(Books) = 1
    /\ Books[1].approved /\ Books[1].timestamp = 0
    /\ Len(Users) = 2

(***************************************************************************)
(* The leaderboard properties speak of the submissions a leaderboard counts:*)
(* the approved ones and, for a window of n days, those of them whose      *)
(* approved_date is a date from now - n to now.                            *)
(***************************************************************************)
Windows == {None, Some(0), Some(WeekDays), Some(MonthDays)}

Counted(book, days, t) ==
    /\ book.approved
    /\ days # None =>
         /\ book.approved_date # None
         /\ book.approved_date[1] # InvalidDate
         /\ t - days[1] <= book.approved_date[1]
         /\ book.approved_date[1] <= t

CountedAt(storage, submitter, days, t) ==
    {i \in 1..Len(storage.books) :
        storage.books[i].submitter_id = submitter /\ Counted(storage.books[i], days, t)}

FirstCounted(storage, submitter, days, t) ==
    LET at == CountedAt(storage, submitter, days, t)
    IN  IF at = {} THEN 0 ELSE CHOOSE i \in at : \A j \in at : i <= j

SubmittersOf(storage) == {storage.books[i].submitter_id : i \in 1..Len(storage.books)}

Listed(leaderboard) == {leaderboard[k].user.id : k \in 1..Len(leaderboard)}

\* the days of the leaderboard the last handler has shown
ShownDays == PeriodDays(ret.reply)

(***************************************************************************)
(* C14.  A leaderboard has at most 10 entries, at most one per submitter,  *)
(* in non-increasing order of count; no submitter left out has more        *)
(* counted submissions than a listed one; and of two listed submitters of  *)
(* equal count the one whose first counted submission is stored first      *)
(* comes first.                                                            *)
(***************************************************************************)
RankingPost(leaderboard, storage, days, t) ==
    /\ Len(leaderboard) <= 10
    /\ \A k, l \in 1..Len(leaderboard) :
         leaderboard[k].user.id = leaderboard[l].user.id => k = l
    /\ \A k, l \in 1..Len(leaderboard) :
         k < l => leaderboard[k].count >= leaderboard[l].count
    /\ \A submitter \in SubmittersOf(storage) \ Listed(leaderboard) :
         \A k \in 1..Len(leaderboard) :
            Cardinality(CountedAt(storage, submitter, days, t)) <= leaderboard[k].count
    /\ \A k, l \in 1..Len(leaderboard) :
         (k < l /\ leaderboard[k].count = leaderboard[l].count) =>
             FirstCounted(storage, leaderboard[k].user.id, days, t)
                 < FirstCounted(storage, leaderboard[l].user.id, days, t)

C14_LeaderboardRanking ==
    /\ \A days \in Windows :
         RankingPost(get_leaderboard_by_period(storage_json, days, now),
                     load_storage(storage_json), days, now)
    /\ ret.op = "leaderboard" =>
         RankingPost(ret.out, load_storage(storage_json), ShownDays, now)

\* eleven submitters have approved submissions: ten are shown, those with two
\* submissions first
C14_Witness ==
    /\ ret.op = "leaderboard"
    /\ Cardinality(SubmittersOf(load_storage(storage_json))) = 11
    /\ Len(ret.out) = 10
    /\ ret.out[1].count = 2 /\ ret.out[2].count = 2
    /\ ret.out[3].count = 1 /\ ret.out[10].count = 1

(***************************************************************************)
(* C15.  Every entry of the all-time leaderboard reports the number of     *)
(* stored approved submissions of its submitter, whatever their            *)
(* approved_date; and no entry of any leaderboard reports more than that   *)
(* number, so that unapproved submissions never count.                     *)
(***************************************************************************)
ApprovedOf(storage, submitter) ==
    Cardinality({i \in 1..Len(storage.books) :
                    storage.books[i].submitter_id = submitter /\ storage.books[i].approved})

AllTimePost(leaderboard, storage) ==
    \A k \in 1..Len(leaderboard) :
        leaderboard[k].count = ApprovedOf(storage, leaderboard[k].user.id)

ApprovedOnlyPost(leaderboard, storage) ==
    \A k \in 1..Len(leaderboard) :
        /\ leaderboard[k].count >= 1
        /\ leaderboard[k].count <= ApprovedOf(storage, leaderboard[k].user.id)

C15_AllTimeCounts ==
    /\ AllTimePost(get_leaderboard_by_period(storage_json, None, now),
                   load_storage(storage_json))
    /\ \A days \in Windows :
         ApprovedOnlyPost(get_leaderboard_by_period(storage_json, days, now),
                          load_storage(storage_json))
    /\ (ret.op = "leaderboard" /\ ret.reply = "alltime") =>
         AllTimePost(ret.out, load_storage(storage_json))
    /\ ret.op = "leaderboard" => ApprovedOnlyPost(ret.out, load_storage(storage_json))

\* the all-time leaderboard of a submitter with a pending submission, one
\* approved with an unparsable date and one approved 8 days ago
C15_Witness ==
    /\ ret.op = "leaderboard" /\ ret.reply = "alltime"
    /\ Len(Books) = 3
    /\ SubmittersOf(load_storage(storage_json)) = {1}
    /\ ~Books[1].approved
    /\ Books[2].approved /\ Books[2].approved_date = Some(InvalidDate)
    /\ Books[3].approved /\ Books[3].approved_date = Some(now - 8)
    /\ Len(ret.out) = 1 /\ ret.out[1].count = 2

(***************************************************************************)
(* C16.  A leaderboard of n days counts for each submitter exactly the     *)
(* approved submissions whose approved_date is a date from now - n to now: *)
(* one approved 8 days ago is left out of the leaderboard of 7 days, one   *)
(* approved 6 or 7 days ago is in it, and one whose approved_date is       *)
(* missing or unparsable is skipped while the others are still counted.    *)
(***************************************************************************)
WindowPost(leaderboard, storage, days, t) ==
    \A submitter \in SubmittersOf(storage) :
        LET count == Cardinality(CountedAt(storage, submitter, days, t))
        IN  /\ \A k \in 1..Len(leaderboard) :
                 leaderboard[k].user.id = submitter =>
                     count >= 1 /\ leaderboard[k].count = count
            /\ (count >= 1 /\ Len(leaderboard) < 10) => submitter \in Listed(leaderboard)

C16_WindowCounts ==
    /\ \A days \in Windows \ {None} :
         WindowPost(get_leaderboard_by_period(storage_json, days, now),
                    load_storage(storage_json), days, now)
    /\ (ret.op = "leaderboard" /\ ret.reply # "alltime") =>
         WindowPost(ret.out, load_storage(storage_json), ShownDays, now)

\* the weekly leaderboard of a submitter with approvals 8 and 6 days ago and one
\* without a date
C16_Witness ==
    /\ ret.op = "leaderboard" /\ ret.reply = "weekly"
    /\ Len(Books) = 3
    /\ SubmittersOf(load_storage(storage_json)) = {1}
    /\ Books[1].approved_date = Some(now - 8)
    /\ Books[2].approved_date = Some(now - 6)
    /\ Books[3].approved /\ Books[3].approved_date = None
    /\ Len(ret.out) = 1 /\ ret.out[1].count = 1

(***************************************************************************)
(* C17.  get_library_stats reports the number of approved submissions as   *)
(* total_books, the number of unapproved ones as pending_submissions and   *)
(* the number of users as total_users, so that total_books +               *)
(* pending_submissions is the number of stored submissions in every state; *)
(* after the approval of the only submission of a store, total_books = 1   *)
(* and pending_submissions = 0.                                            *)
(***************************************************************************)
C17_LibraryStatsCounts ==
    /\ [](LET stats == get_library_stats(storage_json)
          IN  /\ stats.total_books =
                     Cardinality({i \in 1..Len(Books) : Books[i].approved})
              /\ stats.pending_submissions =
                     Cardinality({i \in 1..Len(Books) : ~Books[i].approved})
              /\ stats.total_users = Len(Users)
              /\ stats.total_books + stats.pending_submissions = Len(Books))
    /\ [][\A id \in BookIds :
            (/\ Len(Books) = 1
             /\ Books[1].id = id
             /\ ~Books[1].approved
             /\ ApproveStep(id))
            => /\ get_library_stats(storage_json').total_books = 1
               /\ get_library_stats(storage_json').pending_submissions = 0]_vars

\* the first submission ever made has just been approved
C17_Witness ==
    /\ ret.op = "approve" /\ ret.ok /\ ret.id = 1
    /\ uuids = 1
    /\ Len(Books) = 1
    /\ get_library_stats(storage_json).total_books = 1
    /\ get_library_stats(storage_json).total_users = 1

(***************************************************************************)
(* C18.  most_active_user of get_library_stats is None exactly when no     *)
(* stored submission is approved; otherwise its contributions is the       *)
(* largest number of approved submissions a submitter has, and it is the   *)
(* user whose id the first entry of the all-time leaderboard has, with     *)
(* that entry's count.                                                     *)
(***************************************************************************)
C18_MostActiveIsLeader ==
    LET storage == load_storage(storage_json)
        stats == get_library_stats(storage_json)
        leaderboard == get_leaderboard_by_period(storage_json, None, now)
    IN  /\ stats.most_active_user = None <=> \A i \in 1..Len(Books) : ~Books[i].approved
        /\ stats.most_active_user # None =>
             LET most_active == stats.most_active_user[1]
             IN  /\ \A submitter \in SubmittersOf(storage) :
                       ApprovedOf(storage, submitter) <= most_active.contributions
                 /\ \E submitter \in SubmittersOf(storage) :
                       ApprovedOf(storage, submitter) = most_active.contributions
                 /\ leaderboard # <<>>
                 /\ leaderboard[1].count = most_active.contributions
                 /\ \E i \in 1..Len(Users) :
                       /\ Users[i].id = leaderboard[1].user.id
                       /\ Users[i].first_name = most_active.name
                       /\ Users[i].username = most_active.username

\* the statistics were shown for a store in which two submitters have one
\* approved submission each and the second one submitted first
C18_Witness ==
    /\ ret.op = "stats" /\ ret.ok
    /\ Len(Books) = 3
    /\ Books[1].submitter_id = 2 /\ Books[1].approved
    /\ Books[2].submitter_id = 1 /\ Books[2].approved
    /\ ~Books[3].approved
    /\ ret.out[1].most_active_user[1].username = "user2"
    /\ ret.out[1].most_active_user[1].contributions = 1

(***************************************************************************)
(* C19.  get_user_stats(u) reports the number of stored submissions of u   *)
(* as total_submissions and the number of the approved ones among them as  *)
(* approved_books, so approved_books <= total_submissions; approval_rate   *)
(* is approved_books / total_submissions * 100, from 0 to 100, when u has  *)
(* a submission, and 0, without a division, when u has none.               *)
(***************************************************************************)
UserStatsPost(stats, storage, user_id) ==
    /\ stats.total_submissions =
           Cardinality({i \in 1..Len(storage.books) :
                           storage.books[i].submitter_id = user_id})
    /\ stats.approved_books = ApprovedOf(storage, user_id)
    /\ stats.approved_books <= stats.total_submissions
    /\ IF stats.total_submissions > 0
       THEN /\ stats.approval_rate.den > 0
            /\ stats.approval_rate.num * stats.total_submissions
                   = stats.approved_books * 100 * stats.approval_rate.den
            /\ 0 <= stats.approval_rate.num
            /\ stats.approval_rate.num <= 100 * stats.approval_rate.den
       ELSE stats.approval_rate = [num |-> 0, den |-> 1]

C19_UserStats ==
    /\ \A user_id \in StatsIds :
         UserStatsPost(get_user_stats(storage_json, user_id),
                       load_storage(storage_json), user_id)
    /\ ret.op = "user_stats" =>
         UserStatsPost(ret.out[1], load_storage(storage_json), ret.id)

\* the statistics of a user with three submissions, two of them approved, while
\* the other user has none
C19_Witness ==
    /\ ret.op = "user_stats" /\ ret.id = 1
    /\ ret.out[1].total_submissions = 3
    /\ ret.out[1].approved_books = 2
    /\ ret.out[1].approval_rate = [num |-> 200, den |-> 3]
    /\ get_user_stats(storage_json, 2).approval_rate = [num |-> 0, den |-> 1]

(***************************************************************************)
(* C20.  An approve or reject callback, a /pending or a /broadcast of a    *)
(* sender who is no administrator leaves the store as it was and is        *)
(* answered with the refusal only: nothing is approved or removed, no      *)
(* pending submission is listed and the broadcast is sent to nobody.       *)
(***************************************************************************)
Refused ==
    /\ storage_json' = storage_json
    /\ ~ret'.ok
    /\ ret'.out = <<>>
    /\ ret'.reply = "admin_only"

C20_AdminOnlyFailsClosed ==
    [][\A from_user \in Senders :
          from_user.id \notin ADMIN_IDS =>
              /\ \A book_id \in BookIds :
                    (approve_callback(from_user, book_id)
                        \/ reject_callback(from_user, book_id)) => Refused
              /\ pending_command(from_user) => Refused
              /\ \A text \in BroadcastTexts :
                    broadcast_command(from_user, text) => Refused]_vars

\* a callback was refused while a pending and an approved submission are stored
C20_Witness ==
    /\ ret.op = "callback" /\ ret.reply = "admin_only"
    /\ Len(Books) = 2
    /\ ~Books[1].approved
    /\ Books[2].approved
    /\ Len(Users) = 2

LastCounted(storage, submitter, days, t) ==
    LET at == CountedAt(storage, submitter, days, t)
    IN  IF at = {} THEN 0 ELSE CHOOSE i \in at : \A j \in at : i >= j

\* every entry carries the names of the submission stored at position
\* at[submitter]
NamesPost(leaderboard, storage, at) ==
    \A k \in 1..Len(leaderboard) :
        LET i == at[leaderboard[k].user.id]
        IN  /\ i # 0
            /\ leaderboard[k].user.username = storage.books[i].submitter_username
            /\ leaderboard[k].user.name = storage.books[i].submitter_name

FirstCountedOf(storage, days, t) ==
    [submitter \in SubmittersOf(storage) |-> FirstCounted(storage, submitter, days, t)]

LastCountedOf(storage, days, t) ==
    [submitter \in SubmittersOf(storage) |-> LastCounted(storage, submitter, days, t)]

(***************************************************************************)
(* C26.  The username and the name of a leaderboard entry are those of the *)
(* first counted submission of its submitter in storage order: the entry   *)
(* is made when the scan meets the submitter for the first time, and later *)
(* submissions only add to its count.  They are not taken from the users   *)
(* collection.                                                             *)
(***************************************************************************)
C26_NamesOfFirstCounted ==
    /\ \A days \in Windows :
         NamesPost(get_leaderboard_by_period(storage_json, days, now),
                   load_storage(storage_json),
                   FirstCountedOf(load_storage(storage_json), days, now))
    /\ ret.op = "leaderboard" =>
         NamesPost(ret.out, load_storage(storage_json),
                   FirstCountedOf(load_storage(storage_json), ShownDays, now))

\* C26 as stated: the names of an entry are those of the last counted
\* submission of its submitter in storage order
C26_NamesOfLastCounted ==
    ret.op = "leaderboard" =>
        NamesPost(ret.out, load_storage(storage_json),
                  LastCountedOf(load_storage(storage_json), ShownDays, now))

\* the weekly leaderboard of a submitter whose first submission is not counted
\* and whose second and third ones, under different names, are
C26_Witness ==
    /\ ret.op = "leaderboard" /\ ret.reply = "weekly"
    /\ Len(Books) = 3
    /\ SubmittersOf(load_storage(storage_json)) = {1}
    /\ ~Counted(Books[1], ShownDays, now)
    /\ Counted(Books[2], ShownDays, now)
    /\ Counted(Books[3], ShownDays, now)
    /\ Books[2].submitter_username # Books[3].submitter_username
    /\ Len(ret.out) = 1
    /\ ret.out[1].count = 2
    /\ ret.out[1].user.username = Books[2].submitter_username
    /\ ret.out[1].user.username # Users[1].username

\* the fields of a submission that are written once, by add_book_submission
Written(book) ==
    <<book.id, book.title, book.author, book.submitter_id, book.submitter_username,
      book.submitter_name, book.gdrive_link, book.file_id, book.timestamp>>

\* the submissions of books whose id is in ids, in storage order
Kept(books, ids) == SelectSeq(books, LAMBDA book : book.id \in ids)

(***************************************************************************)
(* C27.  In every step, a submission that is still stored afterwards has   *)
(* the id, title, author, submitter_id, submitter_username,                *)
(* submitter_name, gdrive_link, file_id and timestamp it had before; the   *)
(* surviving submissions keep their relative order; a new submission is    *)
(* the last one; and in every step but an approve the surviving            *)
(* submissions are unchanged in all their fields.                          *)
(***************************************************************************)
C27_SubmissionFrame ==
    [][storage_json' # storage_json =>
         LET books == load_storage(storage_json).books
             books2 == load_storage(storage_json').books
             ids == IdsOf(books)
             before == Kept(books, IdsOf(books2))
             after == Kept(books2, ids)
         IN  /\ Len(after) = Len(before)
             /\ \A i \in 1..Len(before) : Written(after[i]) = Written(before[i])
             /\ ret'.op # "approve" => after = before
             /\ \A j \in 1..Len(books2) :
                  books2[j].id \notin ids =>
                      /\ j = Len(books2)
                      /\ SubSeq(books2, 1, j - 1) = after]_vars

\* the submitter of the first, approved, submission has changed names since, and
\* a second submission has been stored
C27_Witness ==
    /\ Len(Books) = 2
    /\ Books[1].approved
    /\ Books[1].submitter_id = 1
    /\ Books[1].submitter_username = "neo"
    /\ Books[2].submitter_username = "Unknown"
    /\ Users[IndexOfId(Users, 1)].username = "Unknown"
    /\ ~Books[2].approved

(***************************************************************************)
(* C28.  Once a submission is approved, its approved_date and approved_by  *)
(* are the same in every later state in which it is stored, an approve of  *)
(* the same id issued again included.                                      *)
(***************************************************************************)
C28_ApprovalFieldsFixed ==
    [][\A i \in 1..Len(Books) :
          Books[i].approved =>
              \A j \in 1..Len(Books') :
                  Books'[j].id = Books[i].id =>
                      /\ Books'[j].approved_date = Books[i].approved_date
                      /\ Books'[j].approved_by = Books[i].approved_by]_vars

(***************************************************************************)
(* C29.  In every state, a submission approved through the approve         *)
(* callback has an approved_by that is not empty and is the id of an       *)
(* admin.                                                                  *)
(***************************************************************************)
C29_ApprovedByNamesAdmin ==
    \A i \in 1..Len(Books) :
        Books[i].approved =>
            /\ Books[i].approved_by # None
            /\ Books[i].approved_by[1] # ""
            /\ \E from_user \in Senders :
                  is_admin(from_user.id) /\ Books[i].approved_by[1] = ToString(from_user.id)

(***************************************************************************)
(* C30.  In every state, the submitter_id of every stored submission is    *)
(* the id of a stored user, and when some submission is approved           *)
(* get_library_stats returns the stored user with the id of the submitter  *)
(* it found most active as most_active_user.                               *)
(***************************************************************************)
C30_SubmitterIsUser ==
    /\ \A i \in 1..Len(Books) : Books[i].submitter_id \in IdsOf(Users)
    /\ (\E i \in 1..Len(Books) : Books[i].approved) =>
         LET stats == get_library_stats(storage_json)
         IN  /\ stats.most_active_user # None
             /\ \E u \in 1..Len(Users) :
                  /\ Users[u].first_name = stats.most_active_user[1].name
                  /\ Users[u].username = stats.most_active_user[1].username
                  /\ \E i \in 1..Len(Books) :
                       Books[i].approved /\ Books[i].submitter_id = Users[u].id

\* two users have a submission each and the second one's is the approved one
C30_Witness ==
    /\ Len(Users) = 2
    /\ Len(Books) = 2
    /\ Books[1].submitter_id # Books[2].submitter_id
    /\ ~Books[1].approved
    /\ Books[2].approved
    /\ get_library_stats(storage_json).most_active_user # None
    /\ get_library_stats(storage_json).most_active_user[1].username
           = Users[IndexOfId(Users, Books[2].submitter_id)].username

\* prefix followed by an id character stands at offset i of link
Starts(link, prefix, i) ==
    /\ i + Len(prefix) + 1 <= Len(link)
    /\ SubSeq(link, i + 1, i + Len(prefix)) = prefix
    /\ link[i + Len(prefix) + 1] \in IdChars

Matches(link, prefix) == \E i \in 0..Len(link) : Starts(link, prefix, i)

\* id is the run of id characters after the leftmost prefix followed by one
Captures(link, prefix, id) ==
    \E i \in 0..Len(link) :
        LET k == i + Len(prefix)
        IN  /\ Starts(link, prefix, i)
            /\ \A j \in 0..(i - 1) : ~Starts(link, prefix, j)
            /\ Len(id) >= 1
            /\ k + Len(id) <= Len(link)
            /\ SubSeq(link, k + 1, k + Len(id)) = id
            /\ \A c \in 1..Len(id) : id[c] \in IdChars
            /\ k + Len(id) < Len(link) => link[k + Len(id) + 1] \notin IdChars

NormalPost(link, out) ==
    IF \/ ~Contains(link, DriveDomain)
       \/ ~(Matches(link, FileDPrefix) \/ Matches(link, IdParam) \/ Matches(link, DPrefix))
    THEN out = link
    ELSE LET id == SubSeq(out, Len(SharingHead) + 1, Len(out) - Len(SharingTail))
         IN  /\ out = SharingHead \o id \o SharingTail
             /\ IF Matches(link, FileDPrefix) THEN Captures(link, FileDPrefix, id)
                ELSE IF Matches(link, IdParam) THEN Captures(link, IdParam, id)
                ELSE Captures(link, DPrefix, id)

(***************************************************************************)
(* C24.  add_book_submission stores, as gdrive_link of the new submission, *)
(* the link it was given when the link does not contain drive.google.com   *)
(* or matches none of /file/d/<id>, id=<id> and /d/<id>; and else          *)
(* https://drive.google.com/file/d/<id>/view?usp=sharing with the id of    *)
(* the first of these three patterns, in this order, that matches.  No     *)
(* link is refused: every call stores a submission.                        *)
(***************************************************************************)
C24_LinkNormalized ==
    ret.op = "submit" =>
        /\ ret.ok
        /\ Len(Books) = uuids
        /\ Books[Len(Books)].id = ret.id
        /\ NormalPost(ret.out, Books[Len(Books)].gdrive_link)
        /\ NormalPost(ret.out, validate_google_drive_link(ret.out))

\* a link with /d/<id> before id=<id> is stored with the id of id=, and a link
\* with the domain and no id has been stored as it was given
C24_Witness ==
    /\ ret.op = "submit"
    /\ Len(Books) = 2
    /\ ret.out = Https \o DriveDomain \o DPrefix \o <<"b">> \o <<"?">> \o IdParam
                     \o <<"A", "-", "_", "9">>
    /\ Books[2].gdrive_link = SharingHead \o <<"A", "-", "_", "9">> \o SharingTail
    /\ Books[1].gdrive_link = Https \o DriveDomain \o <<"/", "x", "/">>

(***************************************************************************)
(* The file-level properties.                                              *)
(***************************************************************************)
\* the file holds one complete document
WellFormed(file) ==
    /\ file # None
    /\ json_load(file[1]).ok
    /\ json_dump(json_load(file[1]).value) = file[1]

\* what a load_storage() of the file returns when open and read do not raise
Loaded(file) == load_storage_file(file, TRUE)

\* a step of save_storage in the call of thread
SaveStep(thread) ==
    /\ ret'.op = "save_storage"
    /\ calls'[thread].pc # calls[thread].pc

CloseStep(thread) ==
    /\ ret'.reply = "saved"
    /\ calls[thread].pc = "opened"
    /\ calls'[thread].pc = "saved"

(***************************************************************************)
(* C21.  Every step of a save_storage that starts on a complete document   *)
(* leaves a complete document in the file: the one before the step or the  *)
(* one the call saves, so that a load_storage() after the step returns one *)
(* of the two, also when the save raises in the middle and when the load   *)
(* is another thread's.                                                    *)
(***************************************************************************)
C21_SaveAtomic ==
    [][\A thread \in Threads :
          (SaveStep(thread) /\ WellFormed(storage_json)) =>
              /\ WellFormed(storage_json')
              /\ Loaded(storage_json') \in {Loaded(storage_json), calls[thread].storage}]_vars

(***************************************************************************)
(* C22.  A load_storage() leaves the file as it is, a missing file         *)
(* included, and returns the empty store when the file is missing, cannot  *)
(* be read or does not hold one complete document; else it returns the     *)
(* store whose text the file holds.                                        *)
(***************************************************************************)
C22_LoadNeverWrites ==
    [][ret'.op = "load_storage" =>
          /\ storage_json' = storage_json
          /\ IF storage_json = None \/ ~ret'.ok \/ ~WellFormed(storage_json)
             THEN ret'.out = EmptyStorage
             ELSE json_dump(ret'.out) = storage_json[1]]_vars

\* a load of a half-written file has returned the empty store, and the file is
\* still the half-written one
C22_Witness ==
    /\ ret.op = "load_storage"
    /\ ret.ok
    /\ storage_json # None
    /\ Len(storage_json[1]) > 0
    /\ ~WellFormed(storage_json)
    /\ ret.out = EmptyStorage
    /\ \E thread \in Threads : calls[thread].pc = "failed" /\ calls[thread].off > 0

LastOfTwo(thread, other) ==
    /\ thread # other
    /\ CloseStep(thread)
    /\ calls[other].pc = "saved"
    /\ (thread \in calls[other].raced \/ other \in calls[thread].raced)
    /\ calls[thread].base = calls[other].base

ReturnStep(thread) ==
    /\ calls[thread].pc \in {"loaded", "opened"}
    /\ calls'[thread].pc \in {"saved", "failed"}

(***************************************************************************)
(* C31.  When add_book_submission returns an id that is not empty, the     *)
(* document in the file has a submission with that id, and when            *)
(* approve_book returns True, the document has the submission with that id *)
(* and approved = TRUE, also when the write of the document has failed.    *)
(***************************************************************************)
C31_SuccessIsPersisted ==
    [][\A thread \in Threads :
          ReturnStep(thread) =>
              LET r == call_returns(calls'[thread])
                  books == Loaded(storage_json').books
              IN  /\ (calls[thread].op.name = "add_book_submission" /\ r.id # 0) =>
                        r.id \in IdsOf(books)
                  /\ (calls[thread].op.name = "approve_book" /\ r.ok) =>
                        \E i \in 1..Len(books) : books[i].id = r.id /\ books[i].approved]_vars

(***************************************************************************)
(* C32.  When an add_user, an add_book_submission or an approve_book that  *)
(* found a complete document in the file, and had the file open for        *)
(* writing alone, has saved, every user and every submission of the        *)
(* document it found is in the document the file holds, also when the read *)
(* at its start has failed.                                                *)
(***************************************************************************)
C32_NothingRemoved ==
    [][\A thread \in Threads :
          (/\ CloseStep(thread)
           /\ calls[thread].op.name \in {"add_user", "add_book_submission", "approve_book"}
           /\ ~calls[thread].overlap
           /\ WellFormed(calls[thread].held)) =>
              /\ IdsOf(Loaded(calls[thread].held).users)
                     \subseteq IdsOf(Loaded(storage_json').users)
              /\ IdsOf(Loaded(calls[thread].held).books)
                     \subseteq IdsOf(Loaded(storage_json').books)]_vars

====
